---- MODULE Spec2Model ----
(***************************************************************************)
(* Model of snputils.snp.io.write.pgen.PGENWriter: the suffix stripping of *)
(* write(), the three output paths, and the append loop that write_pgen    *)
(* runs inside the `with pg.PgenWriter(...)` block.                        *)
(*                                                                         *)
(* A path is the sequence of the dot-separated segments of its final       *)
(* component: "x.pvar.zst" is <<"x", "pvar", "zst">>.  A 64-bit call value *)
(* is the pair <<hi, lo>> of its high word and its low 32-bit word read as *)
(* a signed integer: 2^32 is <<1, 0>>, 1 is <<0, 1>>, -1 is <<-1, -1>>.    *)
(***************************************************************************)
EXTENDS Integers, Sequences, FiniteSets, TLC

VARIABLES
    ctorFilename,   \* the filename argument given to __init__
    snpobj,         \* self.__snpobj: calldata_gt, variant table, sample list
    filename,       \* self.__filename
    vzs,            \* the vzs argument of the running write()
    pc,             \* position of the running write()
    writes,         \* number of write() calls started
    outputs,        \* files opened for writing by the running write()
    pvarFile,       \* data rows written to the .pvar file
    psamFile,       \* data rows written to the .psam file
    sink,           \* the pg.PgenWriter output sink: none / open / closed
    declared,       \* sample_ct, variant_ct, hardcall_phase_present at open
    variant_index,  \* loop variable of write_pgen
    appends,        \* append_alleles calls issued, in order
    records,        \* appends that succeeded (records written)
    exc,            \* exception in flight inside write_pgen
    result          \* what the caller of write() received

vars == <<ctorFilename, snpobj, filename, vzs, pc, writes, outputs, pvarFile,
          psamFile, sink, declared, variant_index, appends, records, exc,
          result>>

----------------------------------------------------------------------------
(* Bounds *)

MaxSuffixes == 2
MaxVariants == 2
MaxSamples == 2
MaxAlleles == 3
MaxCells == 4
MaxWrites == 2

----------------------------------------------------------------------------
(* Paths *)

Segments == {"pgen", "psam", "pvar", "zst", "txt"}

Filenames ==
    UNION {{<<"x">> \o s : s \in [1..n -> Segments]} : n \in 0..MaxSuffixes}

\* file_extensions = (".pgen", ".psam", ".pvar", ".pvar.zst")
file_extensions == {<<"pgen">>, <<"psam">>, <<"pvar">>, <<"pvar", "zst">>}

\* Path.suffix: the last dot-separated segment of the name, empty if none
Suffix(p) == IF Len(p) > 1 THEN <<p[Len(p)]>> ELSE <<>>

\* Path.with_suffix(''): the name without its last segment
WithoutSuffix(p) == IF Len(p) > 1 THEN SubSeq(p, 1, Len(p) - 1) ELSE p

\* if self.__filename.suffix in file_extensions: ... with_suffix('')
Strip(p) == IF Suffix(p) \in file_extensions THEN WithoutSuffix(p) ELSE p

\* f"{self.__filename}.pvar" (+ ".zst" when vzs)
PvarPath(p, z) == IF z THEN p \o <<"pvar", "zst">> ELSE p \o <<"pvar">>

\* f"{self.__filename}.psam"
PsamPath(p) == p \o <<"psam">>

\* filename=str(self.__filename).encode('utf-8')
PgenPath(p) == p

----------------------------------------------------------------------------
(* Call values *)

\* 0, 1, 2^32 and 2^32 + 1 as they sit in a 64-bit integer array
Values == {<<0, 0>>, <<0, 1>>, <<1, 0>>, <<1, 1>>}

\* ndarray.astype(np.int32) on one element: keeps the low 32 bits
AsInt32(v) == v[2]

\* the 64-bit integer that has the same value as the int32 x
Widen(x) == <<IF x < 0 THEN -1 ELSE 0, x>>

----------------------------------------------------------------------------
(* Genotype object *)

Shapes2 ==
    {<<nv, ns>> : nv \in 0..MaxVariants, ns \in 1..MaxSamples}

Shapes3 ==
    {<<nv, ns, na>> : nv \in 0..MaxVariants, ns \in 1..MaxSamples,
                      na \in 1..MaxAlleles}

Cells(sh) == IF Len(sh) = 2 THEN sh[1] * sh[2] ELSE sh[1] * sh[2] * sh[3]

ArraysOf(sh) ==
    IF Len(sh) = 2
    THEN [1..sh[1] -> [1..sh[2] -> Values]]
    ELSE [1..sh[1] -> [1..sh[2] -> [1..sh[3] -> Values]]]

\* calldata_gt: a 2- or 3-dimensional integer array
Matrices ==
    UNION {{[shape |-> sh, data |-> d] : d \in ArraysOf(sh)} :
           sh \in {s \in Shapes2 \cup Shapes3 : Cells(s) <= MaxCells}}

\* variant table and sample list, each row identified by its position
Table(n) == [i \in 1..n |-> i]

SNPObjects ==
    [calldata_gt : Matrices,
     variants : {Table(n) : n \in 0..MaxVariants},
     samples : {Table(n) : n \in 0..MaxSamples}]

\* calldata_gt.ndim == 3
Phased(gt) == Len(gt.shape) = 3

\* calldata_gt.reshape(num_variants, num_samples * num_alleles), row v (0-based)
\* or calldata_gt[v] when the array is 2-dimensional
FlatRow(gt, v) ==
    IF Phased(gt)
    THEN LET na == gt.shape[3]
         IN  [i \in 1..(gt.shape[2] * na) |->
                 gt.data[v + 1][((i - 1) \div na) + 1][((i - 1) % na) + 1]]
    ELSE gt.data[v + 1]

\* flat_genotypes[variant_index].astype(np.int32)
AsInt32Row(row) == [i \in 1..Len(row) |-> AsInt32(row[i])]

RangeHasNextShort(i, n) == i + 1 < n

\* for variant_index in range(num_variants)
RangeHasNext(i, n) == i < n

RangeNextSkip(i) == i + 2

\* the next value of range(num_variants)
RangeNext(i) == i + 1

AppendOutcomePcSwallow(ok) == "loop"

\* an exception raised by append_alleles leaves the for loop and the with body
AppendOutcomePc(ok) == IF ok THEN "loop" ELSE "exit"

ReleasedLeak(s) == s

\* leaving the `with pg.PgenWriter(...)` block closes the writer
Released(s) == "closed"

----------------------------------------------------------------------------
(* State machine *)

NoError == [kind |-> "none", at |-> 0]
Err(k, i) == [kind |-> k, at |-> i]
NotOpened == [sample_ct |-> 0, variant_ct |-> 0, phased |-> FALSE]

InitWith(names, objs) ==
    /\ ctorFilename \in names
    /\ snpobj \in objs
    /\ filename = ctorFilename
    /\ vzs = FALSE
    /\ pc = "idle"
    /\ writes = 0
    /\ outputs = {}
    /\ pvarFile = <<>>
    /\ psamFile = <<>>
    /\ sink = "none"
    /\ declared = NotOpened
    /\ variant_index = 0
    /\ appends = <<>>
    /\ records = 0
    /\ exc = NoError
    /\ result = NoError

\* write(): strip a known suffix from the stored filename, then write_pvar
WriteBegin ==
    /\ pc \in {"idle", "returned", "raised"}
    /\ writes < MaxWrites
    /\ \E z \in BOOLEAN : vzs' = z
    /\ filename' = Strip(filename)
    /\ writes' = writes + 1
    /\ pc' = "pvar"
    /\ outputs' = {}
    /\ pvarFile' = <<>>
    /\ psamFile' = <<>>
    /\ sink' = "none"
    /\ declared' = NotOpened
    /\ variant_index' = 0
    /\ appends' = <<>>
    /\ records' = 0
    /\ exc' = NoError
    /\ result' = NoError
    /\ UNCHANGED <<ctorFilename, snpobj>>

\* write_pvar(): one data row per entry of the variant table
WritePvar ==
    /\ pc = "pvar"
    /\ \E ok \in BOOLEAN :
          IF ok
          THEN /\ outputs' = outputs \cup
                      {[path |-> PvarPath(filename, vzs), kind |-> "pvar"]}
               /\ pvarFile' = snpobj.variants
               /\ pc' = "psam"
               /\ result' = result
          ELSE /\ pc' = "raised"
               /\ result' = Err("pvar", 0)
               /\ UNCHANGED <<outputs, pvarFile>>
    /\ UNCHANGED <<ctorFilename, snpobj, filename, vzs, writes, psamFile, sink,
                   declared, variant_index, appends, records, exc>>

\* write_psam(): one data row per entry of the sample list
WritePsam ==
    /\ pc = "psam"
    /\ \E ok \in BOOLEAN :
          IF ok
          THEN /\ outputs' = outputs \cup
                      {[path |-> PsamPath(filename), kind |-> "psam"]}
               /\ psamFile' = snpobj.samples
               /\ pc' = "pgen"
               /\ result' = result
          ELSE /\ pc' = "raised"
               /\ result' = Err("psam", 0)
               /\ UNCHANGED <<outputs, psamFile>>
    /\ UNCHANGED <<ctorFilename, snpobj, filename, vzs, writes, pvarFile, sink,
                   declared, variant_index, appends, records, exc>>

\* write_pgen() up to entering the with block: pg.PgenWriter(...) is opened
\* with the dimensions read from calldata_gt.shape
PgenOpen ==
    /\ pc = "pgen"
    /\ \E ok \in BOOLEAN :
          IF ok
          THEN /\ outputs' = outputs \cup
                      {[path |-> PgenPath(filename), kind |-> "pgen"]}
               /\ sink' = "open"
               /\ declared' = [sample_ct |-> snpobj.calldata_gt.shape[2],
                               variant_ct |-> snpobj.calldata_gt.shape[1],
                               phased |-> Phased(snpobj.calldata_gt)]
               /\ pc' = "loop"
               /\ result' = result
          ELSE /\ pc' = "raised"
               /\ result' = Err("open", 0)
               /\ UNCHANGED <<outputs, sink, declared>>
    /\ variant_index' = 0
    /\ UNCHANGED <<ctorFilename, snpobj, filename, vzs, writes, pvarFile,
                   psamFile, appends, records, exc>>

\* one iteration of the for loop: writer.append_alleles(row.astype(int32))
AppendAlleles ==
    /\ pc = "loop"
    /\ RangeHasNext(variant_index, declared.variant_ct)
    /\ appends' = Append(appends,
                     [index |-> variant_index,
                      row |-> AsInt32Row(FlatRow(snpobj.calldata_gt,
                                                 variant_index))])
    /\ \E ok \in BOOLEAN :
          /\ pc' = AppendOutcomePc(ok)
          /\ IF ok
             THEN /\ records' = records + 1
                  /\ variant_index' = RangeNext(variant_index)
                  /\ exc' = exc
             ELSE /\ exc' = Err("append", variant_index)
                  /\ UNCHANGED <<records, variant_index>>
    /\ UNCHANGED <<ctorFilename, snpobj, filename, vzs, writes, outputs,
                   pvarFile, psamFile, sink, declared, result>>

\* range(num_variants) is exhausted: the with body ends normally
LoopEnd ==
    /\ pc = "loop"
    /\ ~RangeHasNext(variant_index, declared.variant_ct)
    /\ pc' = "exit"
    /\ UNCHANGED <<ctorFilename, snpobj, filename, vzs, writes, outputs,
                   pvarFile, psamFile, sink, declared, variant_index, appends,
                   records, exc, result>>

\* the with block is left: the writer is closed, then write() returns or the
\* exception in flight propagates to the caller
PgenExit ==
    /\ pc = "exit"
    /\ sink' = Released(sink)
    /\ IF exc = NoError
       THEN /\ pc' = "returned"
            /\ result' = Err("ok", 0)
       ELSE /\ pc' = "raised"
            /\ result' = exc
    /\ UNCHANGED <<ctorFilename, snpobj, filename, vzs, writes, outputs,
                   pvarFile, psamFile, declared, variant_index, appends,
                   records, exc>>

Next ==
    \/ WriteBegin
    \/ WritePvar
    \/ WritePsam
    \/ PgenOpen
    \/ AppendAlleles
    \/ LoopEnd
    \/ PgenExit

\* every filename, a small family of genotype objects
NameObjects ==
    {o \in SNPObjects : Cells(o.calldata_gt.shape) <= 1}

InitNames == InitWith(Filenames, NameObjects)

\* every genotype object, the plain filename and one with a known suffix
DataNames == {<<"x">>, <<"x", "pgen">>}

Init == InitWith(DataNames, SNPObjects)

Spec == Init /\ [][Next]_vars

SpecNames == InitNames /\ [][Next]_vars

\* genotype objects whose variant table and sample list match calldata_gt
SinkObjects ==
    {o \in SNPObjects : /\ Len(o.variants) = o.calldata_gt.shape[1]
                        /\ Len(o.samples) = o.calldata_gt.shape[2]}

InitSink == InitWith({<<"x">>}, SinkObjects)

\* write() runs to completion once called: the code has no suspension point
FairSpec == InitSink /\ [][Next]_vars
                     /\ WF_vars(WritePvar \/ WritePsam \/ PgenOpen
                            \/ AppendAlleles \/ LoopEnd \/ PgenExit)

----------------------------------------------------------------------------
(* Properties *)

\* C1: constructed with "x", "x.pgen", "x.psam", "x.pvar" or "x.pvar.zst",
\* the base path held after the stripping step of the first write() is "x".
C1_StrippedBaseIsX ==
    (writes = 1 /\ ctorFilename \in {<<"x">>, <<"x", "pgen">>, <<"x", "psam">>,
                                     <<"x", "pvar">>, <<"x", "pvar", "zst">>})
        => filename = <<"x">>

\* C2: a successful write() has written exactly <base>.pvar (or
\* <base>.pvar.zst when vzs), <base>.psam and <base>.pgen, the genotype sink
\* being <base>.pgen, where <base> is the stripped base path.
C2_OutputPaths ==
    pc = "returned" =>
        outputs = {[path |-> (IF vzs THEN filename \o <<"pvar", "zst">>
                                     ELSE filename \o <<"pvar">>),
                    kind |-> "pvar"],
                   [path |-> filename \o <<"psam">>, kind |-> "psam"],
                   [path |-> filename \o <<"pgen">>, kind |-> "pgen"]}

\* C3: while the encoder session exists the number of records appended is at
\* most the declared variant_ct, and when write_pgen ends normally it equals
\* variant_ct, for every num_variants >= 0.
C3_RecordsWithinDeclared ==
    /\ sink # "none" => records <= declared.variant_ct
    /\ pc = "returned" => records = declared.variant_ct

C3_Witness ==
    pc = "returned" /\ declared.variant_ct = 2 /\ records = 2

\* C4: the k-th append call of a session carries row k of calldata_gt
\* (k = 0, 1, ...), and a session that ends normally has appended every row
\* exactly once.
C4_AppendsInRowOrder ==
    /\ \A k \in 1..Len(appends) :
          /\ appends[k].index = k - 1
          /\ appends[k].row = AsInt32Row(FlatRow(snpobj.calldata_gt, k - 1))
    /\ pc = "returned" => Len(appends) = snpobj.calldata_gt.shape[1]

C4_Witness ==
    /\ pc = "returned"
    /\ Len(appends) = 2
    /\ appends[1].row # appends[2].row

\* C5: every row handed to append has length sample_ct when unphased and
\* 2 * sample_ct when phased, whatever the size of the allele axis.
C5_RowLength ==
    \A k \in 1..Len(appends) :
        Len(appends[k].row) = IF declared.phased
                              THEN declared.sample_ct * 2
                              ELSE declared.sample_ct

\* C6: a write that succeeds has handed to append, for every call value,
\* the value calldata_gt holds: the int32 conversion never turns an
\* out-of-range value into another value that is then written.
C6_NoSilentTruncation ==
    pc = "returned" =>
        \A k \in 1..Len(appends) :
            \A j \in 1..Len(appends[k].row) :
                Widen(appends[k].row[j])
                    = FlatRow(snpobj.calldata_gt, appends[k].index)[j]

C9_FilesConsistent ==
    pc = "returned" =>
        /\ Len(pvarFile) = declared.variant_ct
        /\ records = declared.variant_ct
        /\ Len(psamFile) = declared.sample_ct

\* C10: the base path stored after the first write() is not changed by any
\* later write().
C10_StripFixedPoint == [][writes >= 1 => filename' = filename]_vars

====
